---- MODULE Spec2Model ----
(***************************************************************************)
(* Neuro-AI desktop application.                                           *)
(*                                                                         *)
(* Part 1: the Electron main process (main.ts): startBackend, the          *)
(* app.whenReady initialisation, the before-quit handler, the window       *)
(* handlers and the 'backend:status' IPC handler.                          *)
(* Part 2: the renderer: the analysis slice's reducers, driven by the      *)
(* batch dispatcher and result aggregator of the design document.          *)
(***************************************************************************)
EXTENDS Integers, Sequences, FiniteSets, TLC

\* ------------------------------------------------------------------ bounds
\* How many times the before-quit event is delivered in one run.
MaxQuits == 2
\* Where the count of BrowserWindows ever created stops counting.
MaxWindows == 2
\* The largest number of images in one submitted batch.
MaxBatch == 2
\* The largest concurrencyLimit a submission asks for.
MaxLimit == 2
\* How many batches are admitted in one run.
MaxBatches == 1
\* The longest list of results the store is driven to, reducer by reducer.
MaxResults == 2

\* ------------------------------------------------------ main process state
VARIABLES
    appPc,          \* "launching" | "awaitBackend" | "running" | "exited"
    procs,          \* the child processes spawned so far, in spawn order
    backendProcess, \* let backendProcess: 0 is null, else an index of procs
    startResult,    \* the promise of startBackend: none|pending|true|false|rejected
    settledBy,      \* which callback settled it: none|stdout|error|timeout
    timers,         \* names of the pending setTimeout callbacks
    mainWindow,     \* let mainWindow: TRUE when not null
    windowsCreated, \* how many BrowserWindows createWindow has made (0..2)
    shortcuts,      \* globalShortcut registrations are in place
    menuSet,        \* Menu.setApplicationMenu has run
    ipcHandlers,    \* setupIpcHandlers has run
    activateHandler,\* app.on('activate') is registered
    isQuitting,     \* let isQuitting
    signalsSent,    \* termination signals delivered to a child process
    quitCount       \* how many times the before-quit handler has run

mainVars == <<appPc, procs, backendProcess, startResult, settledBy, timers,
              mainWindow, windowsCreated, shortcuts, menuSet, ipcHandlers,
              activateHandler, isQuitting, signalsSent, quitCount>>

\* ---------------------------------------------------------- renderer state
VARIABLES
    analysis,       \* the Redux state of analysisSlice (AnalysisState)
    serviceState,   \* ServiceStatus.state
    consecutiveFailures, \* ServiceStatus.consecutiveFailures
    batchNo,        \* how many batches have been admitted; the current batchId
    limits,         \* limits[b]: the concurrencyLimit of batch b
    requests,       \* BatchRun.requests of the current batch: request ids
    queue,          \* the dispatcher's work queue: ids not yet started
    inFlight,       \* ids whose inference call has been issued and not settled
    contacted,      \* ids of the current batch sent to the external process
    batchStatus,    \* BatchRun.status, "None" before the first batch
    cancelled,      \* the current batch's cancellation token is signalled
    submitError,    \* what the last submitBatch returned to its caller
    events          \* what the current batch's handle has delivered, in order

batchVars == <<analysis, serviceState, consecutiveFailures, batchNo, limits,
               requests, queue, inFlight, contacted, batchStatus, cancelled,
               submitError, events>>

\* ------------------------------------------- renderer: App and system slice
VARIABLES
    system,         \* the Redux state of systemSlice (SystemState)
    initPc,         \* initializeApp: unmounted|awaitDisclaimer|awaitStatus|done
    loading,        \* useState(true) of App
    disclaimerAccepted, \* useState(false) of App
    disclaimerRead, \* how store.get('disclaimerAccepted') ended: none|value|throws
    healthCheck,    \* how checkBackendStatus() ended, and what it returned
    addedLog        \* the notifications added since the list was last emptied

appVars == <<system, initPc, loading, disclaimerAccepted, disclaimerRead,
             healthCheck, addedLog>>

\* ------------------------------------------- renderer: the image list
VARIABLES
    imageOp         \* the last action on the image list, and the state it met

imageVars == <<imageOp>>

\* ------------------------------------------- preload: electronAPI.utils
VARIABLES
    listeners,      \* ipcRenderer's listeners, channel by channel
    subs,           \* the utils.on calls made: channel, callback, unsubscribed
    invoked,        \* the callbacks the last message invoked
    lastChannel,    \* the channel of the last message
    sent            \* the channels ipcRenderer.send was called with

preloadVars == <<listeners, subs, invoked, lastChannel, sent>>

\* Everything outside the main process, and everything outside the batch
\* pipeline.
uiVars == <<appVars, imageVars, preloadVars>>

notApp == <<imageVars, preloadVars>>

notImages == <<appVars, preloadVars>>

notPreload == <<appVars, imageVars>>

notMain == <<batchVars, uiVars>>

notBatch == <<mainVars, uiVars>>

vars == <<mainVars, batchVars, uiVars>>

\* A spawned child process: what the operating system knows of it (state,
\* whether it traps SIGTERM, a pending 'error' event) and the handle's
\* `killed` flag.
ProcStates == {"alive", "exited", "spawnFailed"}

InitMain ==
    /\ appPc = "launching"
    /\ procs = <<>>
    /\ backendProcess = 0
    /\ startResult = "none"
    /\ settledBy = "none"
    /\ timers = {}
    /\ mainWindow = FALSE
    /\ windowsCreated = 0
    /\ shortcuts = FALSE
    /\ menuSet = FALSE
    /\ ipcHandlers = FALSE
    /\ activateHandler = FALSE
    /\ isQuitting = FALSE
    /\ signalsSent = 0
    /\ quitCount = 0

\* ---------------------------------------------------- child process (OS)
\* spawn(pythonPath, [backendPath], ...): the handle of a new child process.
\* The launch succeeds (ok) or fails, and then an 'error' event is pending;
\* traps says whether the child handles SIGTERM instead of dying of it.
Spawned(ok, traps) ==
    [state        |-> IF ok THEN "alive" ELSE "spawnFailed",
     killed       |-> FALSE,
     traps        |-> traps,
     errorPending |-> ~ok]

\* backendProcess.kill(): SIGTERM is delivered only to a process that is
\* still there; a delivered signal sets handle.killed and ends the process
\* unless it traps the signal.
SignalDelivered(p) == p.state = "alive"

Killed(p) ==
    IF SignalDelivered(p)
    THEN [p EXCEPT !.killed = TRUE,
                   !.state = IF p.traps THEN "alive" ELSE "exited"]
    ELSE p

LiveProcs == {i \in DOMAIN procs : procs[i].state = "alive"}

\* A failed launch emits 'error' on the next tick, before the event loop
\* takes up any timer or application event.
SpawnErrorPending ==
    backendProcess # 0 /\ procs[backendProcess].errorPending

\* ------------------------------------------------------------ startBackend
\* The executor of the promise: spawn, listeners, and the 10 s timer.
StartBackend(ok, traps) ==
    /\ procs' = Append(procs, Spawned(ok, traps))
    /\ backendProcess' = Len(procs) + 1
    /\ timers' = timers \cup {"startTimeout"}
    /\ startResult' = "pending"
    /\ settledBy' = "none"

\* createWindow(): a new BrowserWindow and the global shortcuts.
CreateWindow ==
    /\ mainWindow' = TRUE
    /\ windowsCreated' = IF windowsCreated < MaxWindows
                         THEN windowsCreated + 1 ELSE windowsCreated
    /\ shortcuts' = TRUE

\* app.whenReady().then(...) after `await startBackend()`: both the try and
\* the catch branch fall through to createWindow, createMenu,
\* setupIpcHandlers and app.on('activate').
WhenReadyContinue ==
    /\ CreateWindow
    /\ menuSet' = TRUE
    /\ ipcHandlers' = TRUE
    /\ activateHandler' = TRUE
    /\ appPc' = "running"

\* A promise that takes every resolve or reject, also after it has settled.
Settle_Overwrites(result, by) ==
    /\ startResult' = result
    /\ settledBy' = by
    /\ IF appPc = "awaitBackend"
       THEN WhenReadyContinue
       ELSE UNCHANGED <<appPc, mainWindow, windowsCreated, shortcuts,
                        menuSet, ipcHandlers, activateHandler>>

\* resolve(v) / reject(e): a promise settles once; the continuation of the
\* await runs as a microtask, before any other event is handled.
Settle(result, by) ==
    IF startResult = "pending"
    THEN /\ startResult' = result
         /\ settledBy' = by
         /\ IF appPc = "awaitBackend"
            THEN WhenReadyContinue
            ELSE UNCHANGED <<appPc, mainWindow, windowsCreated, shortcuts,
                             menuSet, ipcHandlers, activateHandler>>
    ELSE UNCHANGED <<startResult, settledBy, appPc, mainWindow,
                     windowsCreated, shortcuts, menuSet, ipcHandlers,
                     activateHandler>>

\* app.whenReady().then(async () => { ... await startBackend() ...
WhenReady ==
    /\ appPc = "launching"
    /\ \E ok \in BOOLEAN, traps \in BOOLEAN : StartBackend(ok, traps)
    /\ appPc' = "awaitBackend"
    /\ UNCHANGED <<mainWindow, windowsCreated, shortcuts, menuSet,
                   ipcHandlers, activateHandler, isQuitting, signalsSent,
                   quitCount>>
    /\ UNCHANGED notMain

\* backendProcess.stdout.on('data', ...): resolve(true) when the chunk
\* includes 'Running on'.
Chunks == {"Running on", "other"}

StdoutData ==
    /\ appPc # "exited"
    /\ backendProcess # 0
    /\ procs[backendProcess].state = "alive"
    /\ \E chunk \in Chunks :
          IF chunk = "Running on"
          THEN Settle("true", "stdout")
          ELSE UNCHANGED <<startResult, settledBy, appPc, mainWindow,
                           windowsCreated, shortcuts, menuSet, ipcHandlers,
                           activateHandler>>
    /\ UNCHANGED <<procs, backendProcess, timers, isQuitting, signalsSent,
                   quitCount>>
    /\ UNCHANGED notMain

\* An 'error' listener that logs the error and does not reject.
ProcessError_NoReject ==
    /\ appPc # "exited"
    /\ backendProcess # 0
    /\ procs[backendProcess].errorPending
    /\ procs' = [procs EXCEPT ![backendProcess].errorPending = FALSE]
    /\ UNCHANGED <<startResult, settledBy, appPc, mainWindow, windowsCreated,
                   shortcuts, menuSet, ipcHandlers, activateHandler>>
    /\ UNCHANGED <<backendProcess, timers, isQuitting, signalsSent, quitCount>>
    /\ UNCHANGED notMain

\* backendProcess.on('error', ...): reject(error).
ProcessError ==
    /\ appPc # "exited"
    /\ backendProcess # 0
    /\ procs[backendProcess].errorPending
    /\ procs' = [procs EXCEPT ![backendProcess].errorPending = FALSE]
    /\ Settle("rejected", "error")
    /\ UNCHANGED <<backendProcess, timers, isQuitting, signalsSent, quitCount>>
    /\ UNCHANGED notMain

\* A timer callback that only logs the warning and never resolves.
StartTimeout_NoResolve ==
    /\ appPc # "exited"
    /\ ~SpawnErrorPending
    /\ "startTimeout" \in timers
    /\ timers' = timers \ {"startTimeout"}
    /\ UNCHANGED <<startResult, settledBy, appPc, mainWindow, windowsCreated,
                   shortcuts, menuSet, ipcHandlers, activateHandler>>
    /\ UNCHANGED <<procs, backendProcess, isQuitting, signalsSent, quitCount>>
    /\ UNCHANGED notMain

\* setTimeout(() => { ... resolve(false) }, 10000)
StartTimeout ==
    /\ appPc # "exited"
    /\ ~SpawnErrorPending
    /\ "startTimeout" \in timers
    /\ timers' = timers \ {"startTimeout"}
    /\ Settle("false", "timeout")
    /\ UNCHANGED <<procs, backendProcess, isQuitting, signalsSent, quitCount>>
    /\ UNCHANGED notMain

\* The child process ends by itself (it crashes or returns). main.ts
\* registers no 'exit' or 'close' listener, so nothing of the program's own
\* state changes.
ProcExit ==
    /\ \E i \in DOMAIN procs :
          /\ procs[i].state = "alive"
          /\ procs' = [procs EXCEPT ![i].state = "exited"]
    /\ UNCHANGED <<appPc, backendProcess, startResult, settledBy, timers,
                   mainWindow, windowsCreated, shortcuts, menuSet,
                   ipcHandlers, activateHandler, isQuitting, signalsSent,
                   quitCount>>
    /\ UNCHANGED notMain

\* A before-quit handler that calls kill() whenever there is a handle,
\* without looking at handle.killed.
BeforeQuit_NoKilledCheck ==
    /\ appPc \in {"awaitBackend", "running"}
    /\ ~SpawnErrorPending
    /\ quitCount < MaxQuits
    /\ quitCount' = quitCount + 1
    /\ isQuitting' = TRUE
    /\ IF backendProcess # 0
       THEN /\ procs' = [procs EXCEPT ![backendProcess] = Killed(@)]
            /\ signalsSent' = IF SignalDelivered(procs[backendProcess])
                              THEN signalsSent + 1 ELSE signalsSent
       ELSE UNCHANGED <<procs, signalsSent>>
    /\ shortcuts' = FALSE
    /\ UNCHANGED <<appPc, backendProcess, startResult, settledBy, timers,
                   mainWindow, windowsCreated, menuSet, ipcHandlers,
                   activateHandler>>
    /\ UNCHANGED notMain

\* app.on('before-quit', ...). The event is delivered when the user or the
\* system asks the running application to quit, and again when an earlier
\* quit did not go through; quit requests that arrive before 'ready' are
\* not part of this model.
BeforeQuit ==
    /\ appPc \in {"awaitBackend", "running"}
    /\ ~SpawnErrorPending
    /\ quitCount < MaxQuits
    /\ quitCount' = quitCount + 1
    /\ isQuitting' = TRUE
    /\ IF backendProcess # 0 /\ ~procs[backendProcess].killed
       THEN /\ procs' = [procs EXCEPT ![backendProcess] = Killed(@)]
            /\ signalsSent' = IF SignalDelivered(procs[backendProcess])
                              THEN signalsSent + 1 ELSE signalsSent
       ELSE UNCHANGED <<procs, signalsSent>>
    /\ shortcuts' = FALSE
    /\ UNCHANGED <<appPc, backendProcess, startResult, settledBy, timers,
                   mainWindow, windowsCreated, menuSet, ipcHandlers,
                   activateHandler>>
    /\ UNCHANGED notMain

\* After before-quit Electron closes the windows and ends the application
\* process; no handler of main.ts runs afterwards.
AppExit ==
    /\ appPc # "exited"
    /\ isQuitting
    /\ appPc' = "exited"
    /\ UNCHANGED <<procs, backendProcess, startResult, settledBy, timers,
                   mainWindow, windowsCreated, shortcuts, menuSet,
                   ipcHandlers, activateHandler, isQuitting, signalsSent,
                   quitCount>>
    /\ UNCHANGED notMain

\* mainWindow.on('closed', () => { mainWindow = null })
WindowClosed ==
    /\ appPc # "exited"
    /\ mainWindow
    /\ mainWindow' = FALSE
    /\ UNCHANGED <<appPc, procs, backendProcess, startResult, settledBy,
                   timers, windowsCreated, shortcuts, menuSet, ipcHandlers,
                   activateHandler, isQuitting, signalsSent, quitCount>>
    /\ UNCHANGED notMain

\* An activate handler that also starts the backend again.
Activate_Respawn ==
    /\ appPc = "running"
    /\ activateHandler
    /\ IF ~mainWindow
       THEN CreateWindow
       ELSE UNCHANGED <<mainWindow, windowsCreated, shortcuts>>
    /\ \E ok \in BOOLEAN, traps \in BOOLEAN : StartBackend(ok, traps)
    /\ UNCHANGED <<appPc, menuSet, ipcHandlers, activateHandler, isQuitting,
                   signalsSent, quitCount>>
    /\ UNCHANGED notMain

\* app.on('activate', ...): createWindow() when no window is left, else show.
Activate ==
    /\ appPc = "running"
    /\ activateHandler
    /\ IF ~mainWindow
       THEN CreateWindow
       ELSE UNCHANGED <<mainWindow, windowsCreated, shortcuts>>
    /\ UNCHANGED <<appPc, procs, backendProcess, startResult, settledBy,
                   timers, menuSet, ipcHandlers, activateHandler, isQuitting,
                   signalsSent, quitCount>>
    /\ UNCHANGED notMain

\* A handler that also asks whether the process is still there.
BackendStatusRunning_ChecksAlive ==
    /\ backendProcess # 0
    /\ ~procs[backendProcess].killed
    /\ procs[backendProcess].state = "alive"

\* ipcMain.handle('backend:status', ...): the `running` field of its answer.
BackendStatusRunning ==
    backendProcess # 0 /\ ~procs[backendProcess].killed

\* ======================================================= main process claims

\* The 10 s timer of startBackend has fired.
TimerFired == startResult # "none" /\ "startTimeout" \notin timers

\* C4: when the backend has not been detected as ready before the
\* readiness timer fires, the wait ends (with the not-ready result false,
\* never with an error) and startup has gone on: the window, the menu and
\* the IPC handlers exist and the application runs.
C4_TimeoutContinuesStartup ==
    TimerFired =>
        /\ startResult \in {"true", "false", "rejected"}
        /\ (settledBy = "timeout" => startResult = "false")
        /\ appPc \in {"running", "exited"}
        /\ windowsCreated >= 1
        /\ menuSet
        /\ ipcHandlers

C4_Witness ==
    /\ settledBy = "timeout"
    /\ startResult = "false"
    /\ appPc = "running"
    /\ procs[1].state = "alive"
    /\ menuSet /\ ipcHandlers /\ mainWindow

\* Process i ended without the before-quit handler having signalled it.
UnexpectedExit(i) == procs[i].state = "exited" /\ ~procs[i].killed

\* C5 (as claimed): once a backend process has exited without stop() having
\* asked for it, a restart is scheduled or a new process has been spawned.
C5_RestartAfterCrash ==
    \A i \in DOMAIN procs :
        (UnexpectedExit(i) /\ appPc # "exited")
            => ("restartBackend" \in timers \/ Len(procs) > i)

\* C6: a run of the before-quit handler that is not the first one delivers
\* no termination signal and leaves the supervisor's state (the process
\* handle, its killed flag, isQuitting) as it was.
C6_StopIdempotent ==
    [][(quitCount >= 1 /\ quitCount' = quitCount + 1)
          => /\ signalsSent' = signalsSent
             /\ procs' = procs
             /\ backendProcess' = backendProcess
             /\ isQuitting' = isQuitting]_vars

C6_Witness ==
    /\ quitCount = 2
    /\ signalsSent = 1
    /\ procs[1].state = "alive"
    /\ procs[1].killed

\* C7 (as claimed): once the application has shut down, no backend process
\* it spawned is alive.
C7_NoOrphanAfterShutdown ==
    appPc = "exited" => LiveProcs = {}

\* C8: at most one spawned backend process is live, and every process
\* spawned before the latest one is no longer alive (nor exiting).
C8_SingleLiveBackend ==
    /\ Cardinality(LiveProcs) <= 1
    /\ \A i \in DOMAIN procs : i < Len(procs) => procs[i].state # "alive"
    /\ Len(procs) <= 1

C8_Witness ==
    /\ Len(procs) = 1
    /\ procs[1].state = "alive"
    /\ windowsCreated = 2
    /\ appPc = "running"

\* The launch of the backend failed, and its 'error' event was delivered.
SpawnFailed ==
    /\ backendProcess # 0
    /\ procs[backendProcess].state = "spawnFailed"
    /\ ~procs[backendProcess].errorPending

\* The launch of the backend succeeded.
Launched ==
    backendProcess # 0 /\ procs[backendProcess].state # "spawnFailed"

\* C15: after a failed launch startBackend has rejected with the spawn
\* error and initialization has gone on past the catch (window, menu and IPC
\* handlers exist); after a successful launch startBackend never rejects, it
\* stays pending (spawned, not ready: initialization waits, unless the
\* application is quit) until it is settled, and it is settled with true
\* only by the readiness line on stdout.
C15_SpawnErrorCaught ==
    /\ SpawnFailed
          => /\ startResult = "rejected"
             /\ settledBy = "error"
             /\ appPc \in {"running", "exited"}
             /\ windowsCreated >= 1
             /\ menuSet
             /\ ipcHandlers
    /\ Launched
          => /\ startResult # "rejected"
             /\ appPc = "awaitBackend" => startResult = "pending"
             /\ startResult = "pending" => appPc \in {"awaitBackend", "exited"}
             /\ startResult = "pending" => ~mainWindow /\ ~ipcHandlers
             /\ startResult = "true" => settledBy = "stdout"

C15_Witness ==
    /\ SpawnFailed
    /\ startResult = "rejected"
    /\ appPc = "running"
    /\ mainWindow
    /\ ipcHandlers
    /\ "startTimeout" \in timers

\* The promise of startBackend has been resolved or rejected.
StartSettled == startResult \in {"true", "false", "rejected"}

\* C20: the result of startBackend is the one of the callback that settled
\* it (true from the readiness line on stdout, rejection from 'error', false
\* from the timer); once settled, no later event changes the result or the
\* callback it came from, and the continuation of the await has run by then
\* and does not run again.
C20_SettledOnce ==
    /\ [](StartSettled
             => /\ \/ settledBy = "stdout" /\ startResult = "true"
                   \/ settledBy = "error" /\ startResult = "rejected"
                   \/ settledBy = "timeout" /\ startResult = "false"
                /\ appPc \in {"running", "exited"})
    /\ [](~StartSettled => settledBy = "none")
    /\ [][StartSettled
             => /\ startResult' = startResult
                /\ settledBy' = settledBy
                /\ menuSet' = menuSet
                /\ ipcHandlers' = ipcHandlers]_vars

C20_Witness ==
    /\ startResult = "true"
    /\ settledBy = "stdout"
    /\ "startTimeout" \notin timers
    /\ procs[1].state = "alive"
    /\ appPc = "running"

\* C16 (as claimed): once a launch has failed and the application goes on
\* running, another spawn attempt is scheduled or has been made.
C16_SpawnRetried ==
    \A i \in DOMAIN procs :
        (/\ procs[i].state = "spawnFailed"
         /\ ~procs[i].errorPending
         /\ appPc = "running")
            => ("retrySpawn" \in timers \/ Len(procs) > i)

\* The application runs and answers 'backend:status' with running = true
\* although the backend process has ended.
StaleStatus ==
    /\ appPc = "running"
    /\ ipcHandlers
    /\ backendProcess # 0
    /\ procs[backendProcess].state = "exited"
    /\ BackendStatusRunning

\* C18 (as claimed): while the application runs, a change of the backend's
\* health (the process has ended) is eventually reflected in the status the
\* application reports.
C18_HealthChangeReflected == StaleStatus ~> ~StaleStatus

NextMain ==
    \/ WhenReady
    \/ StdoutData
    \/ ProcessError
    \/ StartTimeout
    \/ ProcExit
    \/ BeforeQuit
    \/ AppExit
    \/ WindowClosed
    \/ Activate

\* ============================================================== renderer
\* ------------------------------------------------- analysisSlice (reducers)
\* const initialState: AnalysisState
initialState ==
    [images              |-> <<>>,
     currentImageIndex   |-> 0,
     results             |-> <<>>,
     isAnalyzing         |-> FALSE,
     analysisProgress    |-> 0,
     currentAnalysisType |-> "auto",
     batchMode           |-> FALSE,
     selectedResults     |-> <<>>]

\* An addResult that keeps only the successful results.
addResult_DropFailed(state, payload) ==
    IF payload.success
    THEN [state EXCEPT !.results = Append(@, payload)]
    ELSE state

\* addResult: state.results.push(action.payload)
addResult(state, payload) ==
    [state EXCEPT !.results = Append(@, payload)]

\* clearResults
clearResults(state) ==
    [state EXCEPT !.results = <<>>, !.selectedResults = <<>>]

\* setResults: state.results = action.payload
setResults(state, payload) ==
    [state EXCEPT !.results = payload]

\* removeResult: both lists are filtered by the id.
removeResult(state, payload) ==
    LET KeepResult(r) == r.id # payload
        KeepId(id) == id # payload
    IN  [state EXCEPT !.results = SelectSeq(@, KeepResult),
                      !.selectedResults = SelectSeq(@, KeepId)]

\* Array.prototype.indexOf, with positions counted from 1 and 0 for "not
\* found" (JavaScript: from 0, and -1).
IndexOf(seq, x) ==
    IF \E i \in DOMAIN seq : seq[i] = x
    THEN CHOOSE i \in DOMAIN seq :
             seq[i] = x /\ \A j \in 1..(i - 1) : seq[j] # x
    ELSE 0

\* toggleResultSelection: splice(index, 1) when the id is selected, else push.
toggleResultSelection(state, payload) ==
    LET index == IndexOf(state.selectedResults, payload)
    IN  IF index >= 1
        THEN [state EXCEPT !.selectedResults =
                 SubSeq(@, 1, index - 1) \o SubSeq(@, index + 1, Len(@))]
        ELSE [state EXCEPT !.selectedResults = Append(@, payload)]

\* selectAllResults: state.results.map(r => r.id)
selectAllResults(state) ==
    [state EXCEPT !.selectedResults =
        [i \in DOMAIN state.results |-> state.results[i].id]]

\* deselectAllResults
deselectAllResults(state) ==
    [state EXCEPT !.selectedResults = <<>>]

\* A setIsAnalyzing that also empties the results when analysis stops.
setIsAnalyzing_ClearsResults(state, payload) ==
    [state EXCEPT !.isAnalyzing = payload,
                  !.analysisProgress = IF ~payload THEN 0 ELSE @,
                  !.results = IF ~payload THEN <<>> ELSE @]

\* setIsAnalyzing
setIsAnalyzing(state, payload) ==
    [state EXCEPT !.isAnalyzing = payload,
                  !.analysisProgress = IF ~payload THEN 0 ELSE @]

\* A setAnalysisProgress that adds the payload to the stored progress.
setAnalysisProgress_Accumulates(state, payload) ==
    [state EXCEPT !.analysisProgress = @ + payload]

\* setAnalysisProgress
setAnalysisProgress(state, payload) ==
    [state EXCEPT !.analysisProgress = payload]

\* ------------------------------------------------------------ ServiceStatus
ServiceStates == {"Starting", "Ready", "Degraded", "Crashed", "Stopped"}

\* The dispatcher admits work while the service is Ready or Degraded.
ServiceAvailable == serviceState \in {"Ready", "Degraded"}

\* How many consecutive probe failures turn Ready into Degraded.
DegradedAfter == 3

\* Health Prober: one probe succeeded.
ProbeSuccess ==
    /\ serviceState \in {"Starting", "Ready", "Degraded"}
    /\ serviceState' = IF serviceState = "Starting" THEN "Ready" ELSE serviceState
    /\ consecutiveFailures' = 0
    /\ UNCHANGED <<analysis, batchNo, limits, requests, queue, inFlight,
                   contacted, batchStatus, cancelled, submitError, events>>
    /\ UNCHANGED notBatch

\* A prober that calls the service Degraded at the first failed probe.
ProbeFailure_DegradesAtOnce ==
    /\ serviceState \in {"Starting", "Ready", "Degraded"}
    /\ IF serviceState = "Ready"
       THEN /\ consecutiveFailures' = consecutiveFailures + 1
            /\ serviceState' = "Degraded"
       ELSE UNCHANGED <<serviceState, consecutiveFailures>>
    /\ UNCHANGED <<analysis, batchNo, limits, requests, queue, inFlight,
                   contacted, batchStatus, cancelled, submitError, events>>
    /\ UNCHANGED notBatch

\* Health Prober: one probe failed. Failures are counted while Ready; the
\* third in a row turns Ready into Degraded.
ProbeFailure ==
    /\ serviceState \in {"Starting", "Ready", "Degraded"}
    /\ IF serviceState = "Ready"
       THEN /\ consecutiveFailures' = consecutiveFailures + 1
            /\ serviceState' = IF consecutiveFailures + 1 >= DegradedAfter
                               THEN "Degraded" ELSE "Ready"
       ELSE UNCHANGED <<serviceState, consecutiveFailures>>
    /\ UNCHANGED <<analysis, batchNo, limits, requests, queue, inFlight,
                   contacted, batchStatus, cancelled, submitError, events>>
    /\ UNCHANGED notBatch

\* Process Supervisor, onProcessExit: the exit was not asked for.
OnProcessExit ==
    /\ serviceState \in {"Starting", "Ready", "Degraded"}
    /\ serviceState' = "Crashed"
    /\ consecutiveFailures' = 0
    /\ UNCHANGED <<analysis, batchNo, limits, requests, queue, inFlight,
                   contacted, batchStatus, cancelled, submitError, events>>
    /\ UNCHANGED notBatch

\* Process Supervisor: the restart after a crash spawned the process again.
SupervisorRestart ==
    /\ serviceState = "Crashed"
    /\ serviceState' = "Starting"
    /\ UNCHANGED <<consecutiveFailures, analysis, batchNo, limits, requests,
                   queue, inFlight, contacted, batchStatus, cancelled,
                   submitError, events>>
    /\ UNCHANGED notBatch

\* -------------------------------------------------------- Result Aggregator
\* An AnalysisOutcome as the slice stores it (AnalysisResult: id, success,
\* error).
Outcome(id, kind) == [id |-> id, success |-> kind = "ok", error |-> kind]

\* What an inference call settles with: success, or one kind of failure.
SettleKinds == {"ok", "InferenceError"}

Successes(rs) == {i \in DOMAIN rs : rs[i].success}

Failures(rs) == {i \in DOMAIN rs : ~rs[i].success}

\* A classification that calls a batch Completed as soon as one item
\* succeeded.
Classify_AnySuccess(rs) ==
    IF Successes(rs) # {} THEN "Completed" ELSE "Failed"

\* The terminal status of a batch whose outcomes are all there: Completed
\* when every outcome is a success, PartiallyFailed when successes and
\* failures are both there. The design names no status for a batch whose
\* outcomes all failed; it is "Failed" here.
Classify(rs) ==
    IF Failures(rs) = {} THEN "Completed"
    ELSE IF Successes(rs) # {} THEN "PartiallyFailed"
    ELSE "Failed"

\* What the handle of a batch streams: a progress event carrying the
\* completedCount, and the terminal snapshot (here: how many outcomes it
\* holds).
ProgressEvent(completedCount) == [type |-> "progress", n |-> completedCount]

TerminalSnapshot(outcomes) == [type |-> "terminal", n |-> outcomes]

\* On each dispatcher outcome event: insert the outcome, report progress,
\* and leave Running when every request has its outcome; the terminal
\* snapshot follows the last progress event.
RecordOutcome(o) ==
    LET inserted == setAnalysisProgress(addResult(analysis, o),
                                        Len(analysis.results) + 1)
        reported == Append(events, ProgressEvent(inserted.analysisProgress))
    IN  IF Len(inserted.results) >= Len(requests)
        THEN /\ batchStatus' = Classify(inserted.results)
             /\ analysis' = setIsAnalyzing(inserted, FALSE)
             /\ events' = Append(reported,
                                 TerminalSnapshot(Len(inserted.results)))
        ELSE /\ batchStatus' = batchStatus
             /\ analysis' = inserted
             /\ events' = reported

\* ------------------------------------------------------ Analysis Dispatcher
InFlightOf(b) == {id \in inFlight : id[1] = b}

\* A submit that does not look at the service status.
SubmitBatch_NoServiceCheck(n, limit) ==
    IF n = 0
    THEN /\ submitError' = "EmptyBatchError"
         /\ UNCHANGED <<analysis, batchNo, limits, requests, queue, inFlight,
                        contacted, batchStatus, cancelled, events>>
    ELSE IF batchStatus = "Running"
    THEN /\ submitError' = "BatchInProgressError"
         /\ UNCHANGED <<analysis, batchNo, limits, requests, queue, inFlight,
                        contacted, batchStatus, cancelled, events>>
    ELSE /\ submitError' = "none"
         /\ batchNo' = batchNo + 1
         /\ limits' = Append(limits, limit)
         /\ requests' = [i \in 1..n |-> <<batchNo + 1, i>>]
         /\ queue' = [i \in 1..n |-> <<batchNo + 1, i>>]
         /\ batchStatus' = "Running"
         /\ analysis' = setIsAnalyzing(clearResults(analysis), TRUE)
         /\ contacted' = {}
         /\ cancelled' = FALSE
         /\ events' = <<>>
         /\ UNCHANGED inFlight

\* A submit that does not look at the length of the list.
SubmitBatch_NoEmptyCheck(n, limit) ==
    IF batchStatus = "Running"
    THEN /\ submitError' = "BatchInProgressError"
         /\ UNCHANGED <<analysis, batchNo, limits, requests, queue, inFlight,
                        contacted, batchStatus, cancelled, events>>
    ELSE IF ~ServiceAvailable
    THEN /\ submitError' = "ServiceUnavailable"
         /\ UNCHANGED <<analysis, batchNo, limits, requests, queue, inFlight,
                        contacted, batchStatus, cancelled, events>>
    ELSE /\ submitError' = "none"
         /\ batchNo' = batchNo + 1
         /\ limits' = Append(limits, limit)
         /\ requests' = [i \in 1..n |-> <<batchNo + 1, i>>]
         /\ queue' = [i \in 1..n |-> <<batchNo + 1, i>>]
         /\ batchStatus' = "Running"
         /\ analysis' = setIsAnalyzing(clearResults(analysis), TRUE)
         /\ contacted' = {}
         /\ cancelled' = FALSE
         /\ events' = <<>>
         /\ UNCHANGED inFlight

\* A submit that starts the new batch even while one is Running.
SubmitBatch_NoInProgressCheck(n, limit) ==
    IF n = 0
    THEN /\ submitError' = "EmptyBatchError"
         /\ UNCHANGED <<analysis, batchNo, limits, requests, queue, inFlight,
                        contacted, batchStatus, cancelled, events>>
    ELSE IF ~ServiceAvailable
    THEN /\ submitError' = "ServiceUnavailable"
         /\ UNCHANGED <<analysis, batchNo, limits, requests, queue, inFlight,
                        contacted, batchStatus, cancelled, events>>
    ELSE /\ submitError' = "none"
         /\ batchNo' = batchNo + 1
         /\ limits' = Append(limits, limit)
         /\ requests' = [i \in 1..n |-> <<batchNo + 1, i>>]
         /\ queue' = [i \in 1..n |-> <<batchNo + 1, i>>]
         /\ batchStatus' = "Running"
         /\ analysis' = setIsAnalyzing(clearResults(analysis), TRUE)
         /\ contacted' = {}
         /\ cancelled' = FALSE
         /\ events' = <<>>
         /\ UNCHANGED inFlight

\* Orchestrator Facade submitBatch(images, modality, concurrencyLimit), then
\* Analysis Dispatcher submit(batch, concurrencyLimit, cancellationToken).
\* The facade's checks (empty input, a batch already running) come before
\* the dispatcher's check of the service status.
SubmitBatch(n, limit) ==
    IF n = 0
    THEN /\ submitError' = "EmptyBatchError"
         /\ UNCHANGED <<analysis, batchNo, limits, requests, queue, inFlight,
                        contacted, batchStatus, cancelled, events>>
    ELSE IF batchStatus = "Running"
    THEN /\ submitError' = "BatchInProgressError"
         /\ UNCHANGED <<analysis, batchNo, limits, requests, queue, inFlight,
                        contacted, batchStatus, cancelled, events>>
    ELSE IF ~ServiceAvailable
    THEN /\ submitError' = "ServiceUnavailable"
         /\ UNCHANGED <<analysis, batchNo, limits, requests, queue, inFlight,
                        contacted, batchStatus, cancelled, events>>
    ELSE /\ submitError' = "none"
         /\ batchNo' = batchNo + 1
         /\ limits' = Append(limits, limit)
         /\ requests' = [i \in 1..n |-> <<batchNo + 1, i>>]
         /\ queue' = [i \in 1..n |-> <<batchNo + 1, i>>]
         /\ batchStatus' = "Running"
         /\ analysis' = setIsAnalyzing(clearResults(analysis), TRUE)
         /\ contacted' = {}
         /\ cancelled' = FALSE
         /\ events' = <<>>
         /\ UNCHANGED inFlight

\* A submission is admitted when none of the three errors applies.
Admits(n) == n # 0 /\ batchStatus # "Running" /\ ServiceAvailable

Submit ==
    /\ \E n \in 0..MaxBatch, limit \in 1..MaxLimit :
          /\ Admits(n) => batchNo < MaxBatches
          /\ SubmitBatch(n, limit)
    /\ UNCHANGED <<serviceState, consecutiveFailures>>
    /\ UNCHANGED notBatch

\* A dispatcher that starts queued requests without counting the calls in
\* flight.
Dispatch_NoLimit ==
    /\ batchStatus = "Running"
    /\ queue # <<>>
    /\ queue' = Tail(queue)
    /\ IF ServiceAvailable
       THEN /\ inFlight' = inFlight \cup {Head(queue)}
            /\ contacted' = contacted \cup {Head(queue)}
            /\ UNCHANGED <<analysis, batchStatus, events>>
       ELSE /\ RecordOutcome(Outcome(Head(queue), "ServiceUnavailable"))
            /\ UNCHANGED <<inFlight, contacted>>
    /\ UNCHANGED <<serviceState, consecutiveFailures, batchNo, limits,
                   requests, cancelled, submitError>>
    /\ UNCHANGED notBatch

\* The dispatcher starts the next queued request when a slot is free. A call
\* issued while the service is not available fails fast, without contacting
\* the external process.
Dispatch ==
    /\ batchStatus = "Running"
    /\ queue # <<>>
    /\ Cardinality(InFlightOf(batchNo)) < limits[batchNo]
    /\ queue' = Tail(queue)
    /\ IF ServiceAvailable
       THEN /\ inFlight' = inFlight \cup {Head(queue)}
            /\ contacted' = contacted \cup {Head(queue)}
            /\ UNCHANGED <<analysis, batchStatus, events>>
       ELSE /\ RecordOutcome(Outcome(Head(queue), "ServiceUnavailable"))
            /\ UNCHANGED <<inFlight, contacted>>
    /\ UNCHANGED <<serviceState, consecutiveFailures, batchNo, limits,
                   requests, cancelled, submitError>>
    /\ UNCHANGED notBatch

\* A dispatcher that reports the outcome of a late call of the current batch
\* as progress although the batch is no longer Running.
InferenceSettled_LateProgress(id, kind) ==
    /\ id \in inFlight
    /\ inFlight' = inFlight \ {id}
    /\ IF id[1] = batchNo /\ batchStatus = "Running"
       THEN RecordOutcome(Outcome(id, kind))
       ELSE /\ events' = IF id[1] = batchNo
                         THEN Append(events,
                                     ProgressEvent(Len(analysis.results) + 1))
                         ELSE events
            /\ UNCHANGED <<analysis, batchStatus>>
    /\ UNCHANGED <<serviceState, consecutiveFailures, batchNo, limits,
                   requests, queue, contacted, cancelled, submitError>>

\* One inference call settles. Its outcome is recorded for the running
\* batch; the outcome of a call of a batch that was cancelled is discarded.
InferenceSettled(id, kind) ==
    /\ id \in inFlight
    /\ inFlight' = inFlight \ {id}
    /\ IF id[1] = batchNo /\ batchStatus = "Running"
       THEN RecordOutcome(Outcome(id, kind))
       ELSE UNCHANGED <<analysis, batchStatus, events>>
    /\ UNCHANGED <<serviceState, consecutiveFailures, batchNo, limits,
                   requests, queue, contacted, cancelled, submitError>>

Settled ==
    /\ \E id \in inFlight, kind \in SettleKinds : InferenceSettled(id, kind)
    /\ UNCHANGED notBatch

\* Orchestrator Facade cancel(batchId): the token is signalled, the queued
\* requests are dropped and the aggregator moves to Aborted; in-flight calls
\* are aborted by the transport (abort) or left to finish. A no-op when the
\* batch is already terminal.
CancelBatch(abort) ==
    IF batchStatus = "Running"
    THEN /\ cancelled' = TRUE
         /\ batchStatus' = "Aborted"
         /\ queue' = <<>>
         /\ inFlight' = IF abort THEN inFlight \ InFlightOf(batchNo)
                        ELSE inFlight
         /\ analysis' = setIsAnalyzing(analysis, FALSE)
         /\ events' = Append(events, TerminalSnapshot(Len(analysis.results)))
    ELSE UNCHANGED <<cancelled, batchStatus, queue, inFlight, analysis,
                     events>>

Cancel ==
    /\ batchNo >= 1
    /\ \E abort \in BOOLEAN : CancelBatch(abort)
    /\ UNCHANGED <<serviceState, consecutiveFailures, batchNo, limits,
                   requests, contacted, submitError>>
    /\ UNCHANGED notBatch

InitBatch ==
    /\ analysis = initialState
    /\ serviceState = "Starting"
    /\ consecutiveFailures = 0
    /\ batchNo = 0
    /\ limits = <<>>
    /\ requests = <<>>
    /\ queue = <<>>
    /\ inFlight = {}
    /\ contacted = {}
    /\ batchStatus = "None"
    /\ cancelled = FALSE
    /\ submitError = "none"
    /\ events = <<>>

NextBatch ==
    \/ ProbeSuccess
    \/ ProbeFailure
    \/ OnProcessExit
    \/ SupervisorRestart
    \/ Submit
    \/ Dispatch
    \/ Settled
    \/ Cancel

\* ------------------------------------------- analysisSlice, action by action
\* The store as its exported actions drive it: any component of the renderer
\* may dispatch any of them, in any order.
notSlice == <<serviceState, consecutiveFailures, batchNo, limits, requests,
              queue, inFlight, contacted, batchStatus, cancelled, submitError,
              events>>

\* The ids and the payloads the actions are dispatched with.
SliceIds == {<<1, 1>>, <<1, 2>>}

SliceResults == {Outcome(id, kind) : id \in SliceIds, kind \in SettleKinds}

ResultLists ==
    UNION {[1..n -> SliceResults] : n \in 0..MaxResults}

AddResult ==
    /\ Len(analysis.results) < MaxResults
    /\ \E payload \in SliceResults : analysis' = addResult(analysis, payload)
    /\ UNCHANGED <<mainVars, notSlice, uiVars>>

SetResults ==
    /\ \E payload \in ResultLists : analysis' = setResults(analysis, payload)
    /\ UNCHANGED <<mainVars, notSlice, uiVars>>

ClearResults ==
    /\ analysis' = clearResults(analysis)
    /\ UNCHANGED <<mainVars, notSlice, uiVars>>

RemoveResult ==
    /\ \E payload \in SliceIds : analysis' = removeResult(analysis, payload)
    /\ UNCHANGED <<mainVars, notSlice, uiVars>>

SetIsAnalyzing ==
    /\ \E payload \in BOOLEAN : analysis' = setIsAnalyzing(analysis, payload)
    /\ UNCHANGED <<mainVars, notSlice, uiVars>>

SetAnalysisProgress ==
    /\ \E payload \in 0..MaxResults :
          analysis' = setAnalysisProgress(analysis, payload)
    /\ UNCHANGED <<mainVars, notSlice, uiVars>>

ToggleResultSelection ==
    /\ \E payload \in SliceIds :
          analysis' = toggleResultSelection(analysis, payload)
    /\ UNCHANGED <<mainVars, notSlice, uiVars>>

SelectAllResults ==
    /\ analysis' = selectAllResults(analysis)
    /\ UNCHANGED <<mainVars, notSlice, uiVars>>

DeselectAllResults ==
    /\ analysis' = deselectAllResults(analysis)
    /\ UNCHANGED <<mainVars, notSlice, uiVars>>

NextSlice ==
    \/ AddResult
    \/ SetResults
    \/ ClearResults
    \/ RemoveResult
    \/ SetIsAnalyzing
    \/ SetAnalysisProgress
    \/ ToggleResultSelection
    \/ SelectAllResults
    \/ DeselectAllResults

\* ------------------------------------------------------------ systemSlice
\* The notifications the list keeps.
NotificationLimit == 10

\* The notifications one run adds.
MaxAdds == 12

systemInitialState ==
    [backendStatus |-> [isRunning |-> FALSE, modelsLoaded |-> FALSE],
     appInfo       |-> "null",
     notifications |-> <<>>,
     isFullscreen  |-> FALSE,
     isDarkMode    |-> FALSE]

setBackendStatus(state, payload) ==
    [state EXCEPT !.backendStatus = payload]

\* The last n entries of a list: Array.prototype.slice(-n).
SliceLast(seq, n) ==
    IF Len(seq) <= n THEN seq ELSE SubSeq(seq, Len(seq) - n + 1, Len(seq))

\* The list keeps its ten oldest entries instead of its ten newest.
addNotification_KeepsOldest(state, payload, now) ==
    LET pushed == Append(state.notifications,
                         [type      |-> payload.type,
                          message   |-> payload.message,
                          id        |-> now,
                          timestamp |-> now])
    IN  [state EXCEPT !.notifications =
            IF Len(pushed) > NotificationLimit
            THEN SubSeq(pushed, 1, NotificationLimit)
            ELSE pushed]

\* now is the clock reading both Date.now() and new Date() give.
addNotification(state, payload, now) ==
    LET pushed == Append(state.notifications,
                         [type      |-> payload.type,
                          message   |-> payload.message,
                          id        |-> now,
                          timestamp |-> now])
    IN  [state EXCEPT !.notifications =
            IF Len(pushed) > NotificationLimit
            THEN SliceLast(pushed, NotificationLimit)
            ELSE pushed]

clearNotifications(state) ==
    [state EXCEPT !.notifications = <<>>]

\* ----------------------------------------------------------------- App.tsx
\* What checkBackendStatus() can give back: it throws, it resolves to
\* nothing, or it resolves to a response with a status and, perhaps, the
\* models' flags.
NoHealthCheck ==
    [kind |-> "none", status |-> "none", hasModels |-> FALSE,
     brain |-> FALSE, chest |-> FALSE]

HealthThrows == [NoHealthCheck EXCEPT !.kind = "throws"]

HealthNull == [NoHealthCheck EXCEPT !.kind = "null"]

HealthResponses ==
    {[kind |-> "response", status |-> s, hasModels |-> FALSE,
      brain |-> FALSE, chest |-> FALSE] : s \in {"healthy", "unhealthy"}}
    \cup
    {[kind |-> "response", status |-> s, hasModels |-> TRUE,
      brain |-> b, chest |-> c] :
        s \in {"healthy", "unhealthy"}, b \in BOOLEAN, c \in BOOLEAN}

HealthOutcomes == {HealthThrows, HealthNull} \cup HealthResponses

\* backendStatus.models?.brain || backendStatus.models?.chest || false
ModelsLoaded(response) ==
    response.hasModels /\ (response.brain \/ response.chest)

InitApp ==
    /\ system = systemInitialState
    /\ initPc = "unmounted"
    /\ loading = TRUE
    /\ disclaimerAccepted = FALSE
    /\ disclaimerRead = "none"
    /\ healthCheck = NoHealthCheck
    /\ addedLog = <<>>

\* The effect runs: initializeApp starts and waits for the stored flag.
Mount ==
    /\ initPc = "unmounted"
    /\ initPc' = "awaitDisclaimer"
    /\ UNCHANGED <<system, loading, disclaimerAccepted, disclaimerRead,
                   healthCheck, addedLog>>
    /\ UNCHANGED <<mainVars, batchVars, notApp>>

\* store.get('disclaimerAccepted') settles: with a value, and the health
\* check is called; or with an error, and catch and finally run.
DisclaimerSettled ==
    /\ initPc = "awaitDisclaimer"
    /\ \/ \E accepted \in BOOLEAN :
            /\ disclaimerRead' = "value"
            /\ disclaimerAccepted' = accepted
            /\ initPc' = "awaitStatus"
            /\ UNCHANGED <<system, loading>>
       \/ /\ disclaimerRead' = "throws"
          /\ system' = setBackendStatus(system,
                          [isRunning |-> FALSE, modelsLoaded |-> FALSE])
          /\ loading' = FALSE
          /\ initPc' = "done"
          /\ UNCHANGED disclaimerAccepted
    /\ UNCHANGED <<healthCheck, addedLog>>
    /\ UNCHANGED <<mainVars, batchVars, notApp>>

\* The loading flag is cleared on the path without an error only.
StatusSettled_NoFinally ==
    /\ initPc = "awaitStatus"
    /\ \E outcome \in HealthOutcomes :
          /\ healthCheck' = outcome
          /\ IF outcome.kind = "response"
             THEN /\ system' = setBackendStatus(system,
                        [isRunning    |-> outcome.status = "healthy",
                         modelsLoaded |-> ModelsLoaded(outcome)])
                  /\ loading' = FALSE
             ELSE /\ system' = setBackendStatus(system,
                        [isRunning |-> FALSE, modelsLoaded |-> FALSE])
                  /\ UNCHANGED loading
    /\ initPc' = "done"
    /\ UNCHANGED <<disclaimerAccepted, disclaimerRead, addedLog>>
    /\ UNCHANGED <<mainVars, batchVars, notApp>>

\* checkBackendStatus() settles. A response is dispatched as the backend
\* status; an error, or reading .status of nothing, goes to catch. finally
\* clears the loading flag on both paths.
StatusSettled ==
    /\ initPc = "awaitStatus"
    /\ \E outcome \in HealthOutcomes :
          /\ healthCheck' = outcome
          /\ IF outcome.kind = "response"
             THEN system' = setBackendStatus(system,
                        [isRunning    |-> outcome.status = "healthy",
                         modelsLoaded |-> ModelsLoaded(outcome)])
             ELSE system' = setBackendStatus(system,
                        [isRunning |-> FALSE, modelsLoaded |-> FALSE])
    /\ loading' = FALSE
    /\ initPc' = "done"
    /\ UNCHANGED <<disclaimerAccepted, disclaimerRead, addedLog>>
    /\ UNCHANGED <<mainVars, batchVars, notApp>>

\* handleAcceptDisclaimer: the dialog is on screen once loading is over;
\* the flag is set when store.set resolved, and stays when it rejected.
AcceptDisclaimer ==
    /\ ~loading
    /\ ~disclaimerAccepted
    /\ \E stored \in BOOLEAN : disclaimerAccepted' = stored
    /\ UNCHANGED <<system, initPc, loading, disclaimerRead, healthCheck,
                   addedLog>>
    /\ UNCHANGED <<mainVars, batchVars, notApp>>

\* A menu listener assigns window.location.href: the page is loaded anew,
\* with a new store and a new App.
MenuNavigate ==
    /\ initPc # "unmounted"
    /\ system' = systemInitialState
    /\ initPc' = "unmounted"
    /\ loading' = TRUE
    /\ disclaimerAccepted' = FALSE
    /\ disclaimerRead' = "none"
    /\ healthCheck' = NoHealthCheck
    /\ addedLog' = <<>>
    /\ UNCHANGED <<mainVars, batchVars, notApp>>

\* The clock of the notifications: the entries added so far, plus one.
Now == Len(addedLog) + 1

AddNotification ==
    /\ Len(addedLog) < MaxAdds
    /\ LET entry == [type |-> "info", message |-> Now]
       IN  /\ system' = addNotification(system, entry, Now)
           /\ addedLog' = Append(addedLog, Now)
    /\ UNCHANGED <<initPc, loading, disclaimerAccepted, disclaimerRead,
                   healthCheck>>
    /\ UNCHANGED <<mainVars, batchVars, notApp>>

ClearNotifications ==
    /\ system' = clearNotifications(system)
    /\ addedLog' = <<>>
    /\ UNCHANGED <<initPc, loading, disclaimerAccepted, disclaimerRead,
                   healthCheck>>
    /\ UNCHANGED <<mainVars, batchVars, notApp>>

NextApp ==
    \/ Mount
    \/ DisclaimerSettled
    \/ StatusSettled
    \/ AcceptDisclaimer
    \/ MenuNavigate
    \/ AddNotification
    \/ ClearNotifications

\* ------------------------------------------- analysisSlice: the image list
\* The images one list holds.
MaxImages == 3

ImageIds == 1..MaxImages

\* The lists the actions are dispatched with; an id may occur twice.
ImageLists ==
    UNION {[1..n -> {[id |-> i] : i \in ImageIds}] : n \in 0..MaxImages}

setImages(state, payload) ==
    [state EXCEPT !.images = payload, !.currentImageIndex = 0]

addImages(state, payload) ==
    [state EXCEPT !.images = state.images \o payload]

\* The index stays where it is, whatever the list has become.
removeImage_NoDecrement(state, payload) ==
    [state EXCEPT
        !.images = SelectSeq(state.images, LAMBDA img : img.id # payload)]

removeImage(state, payload) ==
    LET images == SelectSeq(state.images, LAMBDA img : img.id # payload)
    IN  [state EXCEPT
            !.images = images,
            !.currentImageIndex =
                IF state.currentImageIndex >= Len(images)
                   /\ state.currentImageIndex > 0
                THEN state.currentImageIndex - 1
                ELSE state.currentImageIndex]

clearImages(state) ==
    [state EXCEPT !.images = <<>>, !.currentImageIndex = 0]

setCurrentImageIndex(state, payload) ==
    [state EXCEPT !.currentImageIndex = payload]

\* The ids of a list are pairwise distinct; the index points into the list
\* (indices count from 0).
DistinctIds(state) ==
    \A i, j \in DOMAIN state.images :
        state.images[i].id = state.images[j].id => i = j

ValidIndex(state) ==
    /\ 0 <= state.currentImageIndex
    /\ state.currentImageIndex < Len(state.images)

\* What an action on the list met: the index, and whether the list had
\* distinct ids and a valid index.
Met(op) ==
    [op    |-> op,
     index |-> analysis.currentImageIndex,
     pre   |-> DistinctIds(analysis) /\ ValidIndex(analysis)]

InitImages ==
    imageOp = [op |-> "none", index |-> 0, pre |-> FALSE]

SetImages ==
    /\ \E payload \in ImageLists : analysis' = setImages(analysis, payload)
    /\ imageOp' = Met("setImages")
    /\ UNCHANGED <<mainVars, notSlice, notImages>>

AddImages ==
    /\ \E payload \in ImageLists :
          /\ Len(analysis.images) + Len(payload) <= MaxImages
          /\ analysis' = addImages(analysis, payload)
    /\ imageOp' = Met("addImages")
    /\ UNCHANGED <<mainVars, notSlice, notImages>>

RemoveImage ==
    /\ \E payload \in ImageIds : analysis' = removeImage(analysis, payload)
    /\ imageOp' = Met("removeImage")
    /\ UNCHANGED <<mainVars, notSlice, notImages>>

ClearImages ==
    /\ analysis' = clearImages(analysis)
    /\ imageOp' = Met("clearImages")
    /\ UNCHANGED <<mainVars, notSlice, notImages>>

SetCurrentImageIndex ==
    /\ \E payload \in 0..MaxImages :
          analysis' = setCurrentImageIndex(analysis, payload)
    /\ imageOp' = Met("setCurrentImageIndex")
    /\ UNCHANGED <<mainVars, notSlice, notImages>>

NextImages ==
    \/ SetImages
    \/ AddImages
    \/ RemoveImage
    \/ ClearImages
    \/ SetCurrentImageIndex

\* ------------------------------------------- preload: electronAPI.utils
\* The utils.on calls and the utils.send calls one run makes.
MaxSubs == 2

MaxSends == 2

SendChannels == {"analyze-image", "export-report", "load-history"}

OnChannels == {"analysis-result", "export-complete", "history-loaded"}

\* The channels the calls and the messages of a run name: two of the
\* listening whitelist, one of the sending whitelist.
Channels == {"analysis-result", "export-complete", "analyze-image"}

\* A listener is a function object: the callback the caller passed, or the
\* arrow function utils.on wraps around it.
CallbackOf(cb) == [fn |-> "callback", of |-> cb]

WrapperOf(cb) == [fn |-> "wrapper", of |-> cb]

\* EventEmitter.removeListener: the most recently added instance of the
\* function is removed, when there is one.
RemoveListener(list, fn) ==
    LET at == {i \in DOMAIN list : list[i] = fn}
    IN  IF at = {} THEN list
        ELSE LET last == CHOOSE i \in at : \A j \in at : j <= i
             IN  SubSeq(list, 1, last - 1) \o SubSeq(list, last + 1, Len(list))

InitPreload ==
    /\ listeners = [c \in Channels |-> <<>>]
    /\ subs = <<>>
    /\ invoked = {}
    /\ lastChannel = "none"
    /\ sent = <<>>

\* utils.on(channel, callback), with a callback of its own for every call.
UtilsOn ==
    /\ Len(subs) < MaxSubs
    /\ \E channel \in Channels :
          LET callback == Len(subs) + 1
          IN  /\ subs' = Append(subs, [channel      |-> channel,
                                       callback     |-> callback,
                                       unsubscribed |-> FALSE])
              /\ listeners' =
                    IF channel \in OnChannels
                    THEN [listeners EXCEPT
                            ![channel] = Append(@, WrapperOf(callback))]
                    ELSE listeners
    /\ invoked' = {}
    /\ UNCHANGED <<lastChannel, sent>>
    /\ UNCHANGED <<mainVars, batchVars, notPreload>>

\* The function utils.on returned is called.
Unsubscribe ==
    /\ \E i \in DOMAIN subs :
          /\ ~subs[i].unsubscribed
          /\ subs' = [subs EXCEPT ![i].unsubscribed = TRUE]
          /\ listeners' =
                IF subs[i].channel \in OnChannels
                THEN [listeners EXCEPT
                        ![subs[i].channel] =
                            RemoveListener(@, CallbackOf(subs[i].callback))]
                ELSE listeners
    /\ invoked' = {}
    /\ UNCHANGED <<lastChannel, sent>>
    /\ UNCHANGED <<mainVars, batchVars, notPreload>>

\* A message arrives on a channel: every listener of the channel runs, and
\* a wrapper calls its callback.
IpcMessage ==
    /\ \E channel \in Channels :
          /\ invoked' = {listeners[channel][i].of :
                            i \in DOMAIN listeners[channel]}
          /\ lastChannel' = channel
    /\ UNCHANGED <<listeners, subs, sent>>
    /\ UNCHANGED <<mainVars, batchVars, notPreload>>

\* utils.send(channel, data).
UtilsSend ==
    /\ Len(sent) < MaxSends
    /\ \E channel \in Channels :
          sent' = IF channel \in SendChannels
                  THEN Append(sent, channel)
                  ELSE sent
    /\ invoked' = {}
    /\ UNCHANGED <<listeners, subs, lastChannel>>
    /\ UNCHANGED <<mainVars, batchVars, notPreload>>

NextPreload ==
    \/ UtilsOn
    \/ Unsubscribe
    \/ IpcMessage
    \/ UtilsSend

Init == InitMain /\ InitBatch /\ InitApp /\ InitImages /\ InitPreload

Next == NextMain \/ NextBatch

Spec == Init /\ [][Next]_vars

\* The main process alone, and the renderer alone: the two share no state.
SpecMain == Init /\ [][NextMain]_vars

\* The main process with its event loop going on: an event that is waiting
\* to be handled is handled.
SpecMainFair == Init /\ [][NextMain]_vars /\ WF_vars(NextMain)

SpecBatch == Init /\ [][NextBatch]_vars

\* The store alone, driven through its actions.
SpecSlice == Init /\ [][NextSlice]_vars

\* The App component with the system slice of its store.
SpecApp == Init /\ [][NextApp]_vars

\* The image list of the store, driven through its actions.
SpecImages == Init /\ [][NextImages]_vars

\* The utils part of the API the preload script exposes.
SpecPreload == Init /\ [][NextPreload]_vars
\* ========================================================== renderer claims
Results == analysis.results

RangeOf(seq) == {seq[i] : i \in DOMAIN seq}

OutcomeIds == {Results[i].id : i \in DOMAIN Results}

\* C1: for every batch, the inference calls of the batch that are in flight
\* at the same time are never more than the batch's concurrencyLimit.
C1_ConcurrencyBounded ==
    \A b \in 1..batchNo : Cardinality(InFlightOf(b)) <= limits[b]

C1_Witness ==
    /\ batchStatus = "Running"
    /\ Cardinality(InFlightOf(batchNo)) = limits[batchNo]
    /\ queue # <<>>
    /\ ServiceAvailable

\* C2: a failed inference call becomes the failure outcome of its own item
\* and of nothing else: while the batch has not been cancelled every request
\* is waiting, in flight, or has its one outcome (none is lost to a
\* sibling's failure), a terminal batch has an outcome for every request,
\* an outcome is a success exactly when its call did not fail, and only a
\* cancellation makes a batch Aborted.
C2_FailureIsolated ==
    /\ batchStatus \in {"Running", "Completed", "PartiallyFailed", "Failed"}
          => /\ Len(Results) + Cardinality(InFlightOf(batchNo)) + Len(queue)
                   = Len(requests)
             /\ Cardinality(OutcomeIds) = Len(Results)
             /\ OutcomeIds \subseteq RangeOf(requests)
             /\ OutcomeIds \cap (InFlightOf(batchNo) \cup RangeOf(queue)) = {}
    /\ batchStatus \in {"Completed", "PartiallyFailed", "Failed"}
          => OutcomeIds = RangeOf(requests)
    /\ \A i \in DOMAIN Results : Results[i].success <=> Results[i].error = "ok"
    /\ batchStatus = "Aborted" => cancelled

C2_Witness ==
    /\ batchStatus = "PartiallyFailed"
    /\ Len(Results) = 2
    /\ ~Results[1].success
    /\ Results[2].success

\* C3: a batch that was not cancelled and has an outcome for every request
\* is Completed exactly when every outcome is a success, PartiallyFailed
\* exactly when successes and failures are both there, and with no success
\* and a failure it is not Completed.
C3_TerminalStatus ==
    (batchNo >= 1 /\ ~cancelled /\ Len(Results) = Len(requests)) =>
        /\ batchStatus = "Completed" <=> Failures(Results) = {}
        /\ batchStatus = "PartiallyFailed"
              <=> (Successes(Results) # {} /\ Failures(Results) # {})
        /\ (Successes(Results) = {} /\ Failures(Results) # {})
              => batchStatus # "Completed"

C3_Witness ==
    /\ batchNo >= 1
    /\ ~cancelled
    /\ Len(Results) = Len(requests)
    /\ Successes(Results) # {}
    /\ Failures(Results) # {}
    /\ batchStatus = "PartiallyFailed"

\* C9: a step that answers a submission made while the service is neither
\* Ready nor Degraded admits no batch, leaves the requests, the queue, the
\* outcomes and the calls to the external process as they were, and, for a
\* non-empty submission with no batch running, answers ServiceUnavailable.
C9_UnavailableFailsFast ==
    [][(~ServiceAvailable /\ (submitError' # submitError \/ batchNo' # batchNo))
          => /\ batchNo' = batchNo
             /\ UNCHANGED <<requests, queue, inFlight, contacted, batchStatus,
                            analysis, limits>>
             /\ submitError' \in {"EmptyBatchError", "BatchInProgressError",
                                  "ServiceUnavailable"}
             /\ (batchStatus # "Running" /\ submitError' # "EmptyBatchError")
                   => submitError' = "ServiceUnavailable"]_vars

C9_Witness ==
    /\ submitError = "ServiceUnavailable"
    /\ serviceState = "Crashed"
    /\ batchNo = 0
    /\ contacted = {}
    /\ inFlight = {}

\* C10: a cancelled batch is Aborted and stays so; from the cancellation on
\* its outcomes are exactly those recorded before it, its queue is empty and
\* no further request is sent to the external process.
C10_CancelPreservesOutcomes ==
    /\ [](cancelled => batchStatus = "Aborted")
    /\ [][(batchStatus' = "Aborted" /\ batchNo' = batchNo)
             => /\ analysis'.results = analysis.results
                /\ contacted' = contacted
                /\ queue' = <<>>]_vars
    /\ [][(batchStatus = "Aborted" /\ batchNo' = batchNo)
             => batchStatus' = "Aborted"]_vars

C10_Witness ==
    /\ batchStatus = "Aborted"
    /\ cancelled
    /\ Len(requests) = 2
    /\ Len(Results) = 1
    /\ contacted = RangeOf(requests)
    /\ inFlight = {}

\* C11: a submission answered while a batch is Running is rejected (with
\* BatchInProgressError, or EmptyBatchError when the list was empty), admits
\* no batch, and leaves the running batch's requests, queue, calls in
\* flight, outcomes, progress, events and status as they were.
C11_SecondBatchRejected ==
    [][(batchStatus = "Running"
          /\ (submitError' # submitError \/ batchNo' # batchNo))
          => /\ submitError' \in {"BatchInProgressError", "EmptyBatchError"}
             /\ UNCHANGED <<batchNo, limits, requests, queue, inFlight,
                            contacted, analysis, batchStatus, cancelled,
                            events>>]_vars

C11_Witness ==
    /\ submitError = "BatchInProgressError"
    /\ batchStatus = "Running"
    /\ Len(requests) = 2
    /\ Len(Results) = 1
    /\ analysis.analysisProgress = 1
    /\ inFlight # {}

\* C12 (as claimed): the recorded outcomes hold at most one outcome per id,
\* and while an analysis goes on an outcome once recorded stays recorded as
\* it was.
C12_OneOutcomePerRequest ==
    /\ [](Cardinality(OutcomeIds) = Len(Results))
    /\ [][(analysis.isAnalyzing /\ analysis'.isAnalyzing)
             => \A i \in DOMAIN analysis.results :
                    /\ i \in DOMAIN analysis'.results
                    /\ analysis'.results[i] = analysis.results[i]]_vars

\* C13: the k-th progress report of a batch carries the completed count k
\* (so the reported count grows from each report to the next), while the
\* batch runs the stored progress is the number of outcomes recorded, each
\* for a different request of the batch, and it does not decrease from one
\* step of the running batch to the next, in whatever order the calls
\* settle.
C13_ProgressMonotonic ==
    /\ [](\A i \in DOMAIN events :
              events[i].type = "progress" => events[i].n = i)
    /\ [](batchStatus = "Running"
             => /\ analysis.analysisProgress = Len(Results)
                /\ analysis.analysisProgress = Cardinality(OutcomeIds)
                /\ analysis.analysisProgress <= Len(requests))
    /\ [][(batchStatus = "Running" /\ batchStatus' = "Running")
             => analysis'.analysisProgress >= analysis.analysisProgress]_vars

C13_Witness ==
    /\ batchStatus \in {"Completed", "PartiallyFailed"}
    /\ Len(Results) = 2
    /\ Results[1].id = requests[2]
    /\ Results[2].id = requests[1]
    /\ events = <<ProgressEvent(1), ProgressEvent(2), TerminalSnapshot(2)>>

TerminalStatuses == {"Completed", "PartiallyFailed", "Failed", "Aborted"}

\* The positions of the terminal snapshots among the events of the batch.
Terminals == {i \in DOMAIN events : events[i].type = "terminal"}

\* C14: a batch that is Running has delivered no terminal snapshot; a batch
\* that has left Running has delivered exactly one, as the last event of the
\* batch, after all its progress events; once it is delivered no event of
\* the batch follows, and a next batch is admitted only after it.
C14_TerminalSnapshotOnce ==
    /\ [](batchStatus = "Running" => Terminals = {})
    /\ [](batchStatus \in TerminalStatuses => Terminals = {Len(events)})
    /\ [][(batchStatus \in TerminalStatuses /\ batchNo' = batchNo)
             => events' = events]_vars
    /\ [][(batchNo >= 1 /\ batchNo' # batchNo)
             => Cardinality(Terminals) = 1]_vars

C14_Witness ==
    /\ batchStatus = "Aborted"
    /\ events = <<ProgressEvent(1), TerminalSnapshot(1)>>
    /\ contacted = RangeOf(requests)
    /\ Len(requests) = 2
    /\ inFlight = {}

C19_EmptyBatchRejected ==
    /\ [](batchNo >= 1 => Len(requests) >= 1)
    /\ [](ENABLED (Submit /\ submitError' = "EmptyBatchError"))
    /\ [][(submitError' = "EmptyBatchError" /\ submitError # "EmptyBatchError")
             => UNCHANGED <<batchNo, limits, requests, queue, inFlight,
                            contacted, batchStatus, analysis, cancelled,
                            events>>]_vars

C19_Witness ==
    /\ submitError = "EmptyBatchError"
    /\ serviceState = "Ready"
    /\ batchStatus = "None"
    /\ batchNo = 0
    /\ requests = <<>>

\* What initializeApp ended on: an error of one of its two calls, or a
\* response of the health check.
InitThrew ==
    disclaimerRead = "throws" \/ healthCheck.kind \in {"throws", "null"}

\* C22: when initializeApp is over loading is false; when the disclaimer
\* read or the health check threw, backendStatus is {isRunning: false,
\* modelsLoaded: false}; otherwise isRunning is true exactly when the
\* health check returned the status 'healthy'.
C22_InitializeAppOutcome ==
    initPc = "done" =>
        /\ loading = FALSE
        /\ InitThrew =>
              system.backendStatus =
                  [isRunning |-> FALSE, modelsLoaded |-> FALSE]
        /\ ~InitThrew =>
              /\ healthCheck.kind = "response"
              /\ system.backendStatus.isRunning
                    <=> (healthCheck.status = "healthy")

C22_Witness ==
    /\ initPc = "done"
    /\ disclaimerRead = "value"
    /\ healthCheck.kind = "throws"
    /\ ~loading
    /\ ~system.backendStatus.isRunning


\* C23: after any sequence of the slice's result actions, every id in
\* selectedResults is the id of a result in results.
C23_SelectionWithinResults ==
    \A i \in DOMAIN analysis.selectedResults :
        analysis.selectedResults[i] \in OutcomeIds


\* C24: when removeImage meets a list with pairwise distinct ids and a
\* valid currentImageIndex, the index afterwards is a valid index of the
\* shortened list, or 0 when the list became empty; setImages and
\* clearImages reset the index to 0; addImages leaves it as it was.
C24_ImageIndexKept ==
    /\ (imageOp.op = "removeImage" /\ imageOp.pre) =>
          \/ ValidIndex(analysis)
          \/ analysis.images = <<>> /\ analysis.currentImageIndex = 0
    /\ imageOp.op \in {"setImages", "clearImages"} =>
          analysis.currentImageIndex = 0
    /\ imageOp.op = "addImages" =>
          analysis.currentImageIndex = imageOp.index

C24_Witness ==
    /\ imageOp.op = "removeImage"
    /\ imageOp.pre
    /\ analysis.images # <<>>
    /\ analysis.currentImageIndex = imageOp.index - 1
    /\ ValidIndex(analysis)

\* The last n entries of the log of additions.
NewestAdded(n) ==
    SubSeq(addedLog, Len(addedLog) - n + 1, Len(addedLog))

\* C25: after any sequence of addNotification and clearNotifications the
\* list holds at most 10 entries, and they are the most recently added
\* ones, in the order they were added.
C25_NewestTenKept ==
    LET list == system.notifications
    IN  /\ Len(list) <= NotificationLimit
        /\ Len(list) = IF Len(addedLog) < NotificationLimit
                       THEN Len(addedLog) ELSE NotificationLimit
        /\ [i \in DOMAIN list |-> list[i].message] = NewestAdded(Len(list))

C25_Witness ==
    /\ Len(addedLog) > NotificationLimit
    /\ Len(system.notifications) = NotificationLimit
    /\ system.notifications[NotificationLimit].message = Len(addedLog)
    /\ system.notifications[1].message =
          Len(addedLog) - NotificationLimit + 1

\* C26: once the function utils.on returned for a whitelisted channel has
\* been called, a later message does not invoke the callback; for a
\* channel outside the whitelist utils.on registers no listener and
\* utils.send sends nothing.
C26_UnsubscribeStopsCallback ==
    /\ \A i \in DOMAIN subs :
          (subs[i].channel \in OnChannels /\ subs[i].unsubscribed) =>
              subs[i].callback \notin invoked
    /\ \A c \in Channels \ OnChannels : listeners[c] = <<>>
    /\ \A k \in DOMAIN sent : sent[k] \in SendChannels

====
